---- MODULE Spec2Model ----
(***************************************************************************)
(* Model of the workflow step dispatcher                                   *)
(*   src/examples/nextjs/api/step-v4/[step].rs  (fn handler)               *)
(* One request is handled by one asynchronous task; the actions below are  *)
(* the segments of `handler` between its suspension points (.await), the   *)
(* hosting runtime's completion of the tasks handed to wait_until, and the *)
(* client that follows a redirect.                                         *)
(***************************************************************************)
EXTENDS Integers, Sequences, FiniteSets, TLC

\* ---------------------------------------------------------------- bounds
MaxGraph == 2      \* longest nodes array a request carries
MaxPrior == 1      \* longest sequence get_workflow_state returns
MaxChunks == 2     \* most chunks a stream produces before it ends or fails

\* ------------------------------------------------------------ JSON values
\* serde_json::Value; Absent stands for Option::None of get / as_str / ...
Absent == [t |-> "absent"]
Str(s) == [t |-> "str", v |-> s]
Num(n) == [t |-> "num", v |-> n]
Arr(a) == [t |-> "arr", v |-> a]
Obj(o) == [t |-> "obj", v |-> o]
EmptyObj == Obj(<<>>)

\* Value::get(key): None unless the value is an object holding the key.
Get(val, key) ==
  IF val.t = "obj" /\ key \in DOMAIN val.v THEN val.v[key] ELSE Absent

\* Option::and_then(Value::as_array) / Value::as_str
AsArray(val) == IF val.t = "arr" THEN val ELSE Absent
AsStr(val) == IF val.t = "str" THEN val ELSE Absent

\* .unwrap_or_default() on Option<&str>, then .to_string()
StrOrDefault(val) == IF AsStr(val) = Absent THEN "" ELSE val.v

\* .cloned().unwrap_or_else(|| json!({}))
ValueOrEmptyObj(val) == IF val = Absent THEN EmptyObj ELSE val

\* .and_then(Value::as_array).cloned().unwrap_or_default()
ArrayOrDefault(val) == IF AsArray(val) = Absent THEN <<>> ELSE val.v

\* ---------------------------------------------------- number <-> text
DigitChars == <<"0", "1", "2", "3", "4", "5", "6", "7", "8", "9", "a", "b", "c", "d", "e", "f">>

RECURSIVE JoinStrings(_)
\* [String]::join("") and the concatenation done by format!
JoinStrings(seq) ==
  IF seq = <<>> THEN "" ELSE Head(seq) \o JoinStrings(Tail(seq))

RECURSIVE FormatRadix(_, _)
\* Display ({}) of an unsigned integer for radix 10, LowerHex ({:x}) for 16
FormatRadix(n, radix) ==
  IF n < radix THEN DigitChars[n + 1]
  ELSE FormatRadix(n \div radix, radix) \o DigitChars[(n % radix) + 1]

FormatUsize(n) == FormatRadix(n, 10)

DigitValue(c) ==
  IF \E d \in 0..9 : DigitChars[d + 1] = c
  THEN CHOOSE d \in 0..9 : DigitChars[d + 1] = c
  ELSE -1

RECURSIVE ParseDigits(_, _)
\* the digit loop of usize::from_str: any non-digit is InvalidDigit.
\* (Overflow past usize::MAX is also an error; the segments of this model
\* are far too short to reach it.)
ParseDigits(chars, acc) ==
  IF chars = <<>> THEN [ok |-> TRUE, v |-> acc]
  ELSE IF DigitValue(Head(chars)) < 0 THEN [ok |-> FALSE, v |-> 0]
  ELSE ParseDigits(Tail(chars), acc * 10 + DigitValue(Head(chars)))

\* str::parse::<usize>(): empty is an error, a lone sign is an error, one
\* leading '+' is accepted, '-' is never accepted for an unsigned type.
ParseUsize(chars) ==
  IF chars = <<>> THEN [ok |-> FALSE, v |-> 0]
  ELSE IF Len(chars) = 1 /\ Head(chars) \in {"+", "-"} THEN [ok |-> FALSE, v |-> 0]
  ELSE IF Head(chars) = "+" THEN ParseDigits(Tail(chars), 0)
  ELSE ParseDigits(chars, 0)

\* ---------------------------------------------------------------- paths
\* A request path is prefix "/" last, `last` holding no '/': the characters
\* after the final '/', which is what rsplit('/').next() yields.
PathString(p) == p.prefix \o "/" \o JoinStrings(p.last)

\* req.uri().path().rsplit('/').next().and_then(parse::<usize>).unwrap_or(0)
ParseStepIndex(p) ==
  IF ParseUsize(p.last).ok THEN ParseUsize(p.last).v ELSE 0

\* format!("/api/step-v3/{}", step_index + 1)
NextStepPath(step) == "/api/step-v3/" \o FormatUsize(step + 1)

\* ------------------------------------------------------- JSON to text
\* serde_json's default object map is ordered by key.
KeyOrder == <<"choices", "content", "created", "data", "delta", "finish_reason",
              "id", "index", "message", "model", "object", "role", "token", "x">>

RECURSIVE ToJsonString(_)
RECURSIVE JsonItems(_)
RECURSIVE JsonMembers(_, _)
JsonItems(seq) ==
  IF seq = <<>> THEN ""
  ELSE ToJsonString(Head(seq))
       \o (IF Len(seq) > 1 THEN "," ELSE "") \o JsonItems(Tail(seq))

JsonMembers(rec, keys) ==
  IF keys = <<>> THEN ""
  ELSE LET k == Head(keys)
           rest == SelectSeq(Tail(keys), LAMBDA j : j \in DOMAIN rec)
       IN IF k \in DOMAIN rec
          THEN "\"" \o k \o "\":" \o ToJsonString(rec[k])
               \o (IF rest # <<>> THEN "," ELSE "") \o JsonMembers(rec, Tail(keys))
          ELSE JsonMembers(rec, Tail(keys))

\* serde_json::to_string / Value::to_string
ToJsonString(val) ==
  CASE val.t = "str" -> "\"" \o val.v \o "\""
    [] val.t = "num" -> FormatUsize(val.v)
    [] val.t = "arr" -> "[" \o JsonItems(val.v) \o "]"
    [] val.t = "obj" -> "{" \o JsonMembers(val.v, KeyOrder) \o "}"

\* ----------------------------------------------------------- inputs
Methods == {"OPTIONS", "POST"}
Prefixes == {"/api/step-v3", "/api/step-v4"}
\* final path segments: "", "0", "1", "2", "abc"-like, "+1", "01", "-1"
Segments == {<<>>, <<"0">>, <<"1">>, <<"2">>, <<"a">>, <<"+", "1">>,
             <<"0", "1">>, <<"-", "1">>}

\* one element of the `nodes` array: the id the graph entry exposes (if any)
\* and whether the entry is a group of nodes
NodeEntries == {[id |-> Str("n"), group |-> FALSE],
                [id |-> Absent, group |-> FALSE],
                [id |-> Str("g"), group |-> TRUE]}
NodeArrays == UNION {[1..n -> NodeEntries] : n \in 0..MaxGraph}
\* the arrays sent with the less usual paths and bodies
SampleArrays == {na \in NodeArrays : Len(na) = 2 /\ na[1].id = Str("n")
                                      /\ na[2].id = Absent}

InvalidBody == [t |-> "invalid"]      \* bytes that req.json() rejects
BodyDefaults(na) == Obj([nodes |-> Arr(na)])
BodyFull(na) ==
  Obj([nodes |-> Arr(na), edges |-> Arr(<<>>), workflow_id |-> Str("w"),
       user_id |-> Num(5), trigger_output |-> Obj([x |-> Num(1)]),
       webhook_body |-> Str("hook")])
\* bodies the handler rejects: not JSON, no nodes, nodes not an array
BadBodies ==
  {InvalidBody, EmptyObj, Obj([nodes |-> Str("n")]), Obj([edges |-> Arr(<<>>)])}
SampleBodies == {BodyDefaults(na) : na \in SampleArrays}

Requests ==
  [method : Methods, path : [prefix : Prefixes, last : Segments],
   body : BadBodies \cup SampleBodies]
  \cup [method : {"POST"},
        path : [prefix : {"/api/step-v4"}, last : {<<"0">>, <<"1">>, <<"2">>}],
        body : {BodyDefaults(na) : na \in NodeArrays}]
  \cup [method : {"POST"},
        path : [prefix : {"/api/step-v4"}, last : {<<"0">>}],
        body : {BodyFull(na) : na \in SampleArrays}]

\* what the collaborators can answer
Values == {Obj([x |-> Num(1)]), Obj([x |-> Num(2)])}
PriorValues == {Obj([x |-> Num(1)])}
PriorSeqs == UNION {[1..n -> PriorValues] : n \in 0..MaxPrior}
Chunks == {Obj([token |-> Str("Hel")]), Obj([token |-> Str("lo")]),
           Obj([token |-> Str("")]), Obj([token |-> Num(7)]),
           Obj([delta |-> Str("x")])}
\* chrono::Utc::now() in milliseconds at the two reads of the clock
ClockReads == {<<1999, 1999>>, <<1999, 2000>>}

\* ------------------------------------------------------------- state
VARIABLES
  req,               \* the request being handled
  startStep,         \* step index of the first request of the run
  hops,              \* redirects the client has followed since
  runStores,         \* store_execution_data_v2 tasks scheduled by the
                     \* earlier requests of the run
  pc,                \* where the handler is suspended
  loaded,            \* answer of get_workflow_state
  existing_results,  \* accumulated results (local of handler)
  result,            \* answer of the executor
  token_buf,         \* tokens buffered by the streaming loop
  produced,          \* chunks the stream has yielded so far
  frames,            \* what has been written to the SSE response
  response,          \* what handler returned
  calls,             \* collaborator invocations made for this request
  scheduled,         \* tasks handed to wait_until by the invocation
                     \* that handles req, in order
  pending,           \* indices of scheduled tasks not yet finished
  durable            \* indices of scheduled tasks that completed

vars == <<req, startStep, hops, runStores, pc, loaded, existing_results,
          result, token_buf, produced, frames, response, calls, scheduled,
          pending, durable>>

NoCalls == [json |-> 0, get_workflow_state |-> 0, construct_nodes_graph |-> 0,
            execute_single_node |-> 0, execute_nodes_group |-> 0]
NoResponse == [kind |-> "none"]
NotLoaded == [kind |-> "none"]
NoResult == [kind |-> "none"]

\* ------------------------------------------- locals derived from the request
step_index == ParseStepIndex(req.path)
nodes_OrDefault ==
  IF req.body.t = "obj" /\ AsArray(Get(req.body, "nodes")) = Absent
  THEN Arr(<<>>) ELSE AsArray(Get(req.body, "nodes"))
nodes == AsArray(Get(req.body, "nodes"))
edges == ArrayOrDefault(Get(req.body, "edges"))
workflow_id == StrOrDefault(Get(req.body, "workflow_id"))
user_id == StrOrDefault(Get(req.body, "user_id"))
trigger_output == ValueOrEmptyObj(Get(req.body, "trigger_output"))
webhook_body == ValueOrEmptyObj(Get(req.body, "webhook_body"))

\* construct_nodes_graph(nodes, edges): one entry per element of nodes, in
\* order
ConstructNodesGraph(ns, es) == ns
graph == ConstructNodesGraph(nodes.v, edges)
\* &graph[step_index]  (0-based)
node_or_group == graph[step_index + 1]
MoreSteps == step_index + 1 < Len(graph)

\* ------------------------------------------------------------ responses
CorsHeaders ==
  {<<"Access-Control-Allow-Origin", "*">>,
   <<"Access-Control-Allow-Methods", "POST, OPTIONS">>,
   <<"Access-Control-Allow-Headers", "Content-Type">>}

OkResponse(status, headers, body) ==
  [kind |-> "ok", status |-> status, headers |-> headers, body |-> body]
\* Err(e): the handler's `?` returns the error itself; no Response is built
ErrResponse(e) == [kind |-> "err", error |-> e]
\* index out of bounds: the task panics
PanicResponse == [kind |-> "panic"]

\* Response::builder() with the three CORS headers
builder == CorsHeaders
PreflightResponse_Ok200 == OkResponse(200, CorsHeaders, [t |-> "empty"])
PreflightResponse == OkResponse(204, CorsHeaders, [t |-> "empty"])
SseHeaders ==
  builder \cup {<<"Content-Type", "text/event-stream">>,
                <<"Cache-Control", "no-cache, no-transform">>,
                <<"Connection", "keep-alive">>}

\* Body::from(json!({ "data": existing_results }).to_string())
JsonBody(results) ==
  [t |-> "text", text |-> ToJsonString(Obj([data |-> Arr(results)]))]
RedirectResponse(results) ==
  OkResponse(307, builder \cup {<<"Location", NextStepPath(step_index)>>},
             JsonBody(results))
FinalResponse(results) == OkResponse(200, builder, JsonBody(results))

DataFrame(chunk) == "data: " \o ToJsonString(chunk) \o "\n\n"
RedirectFrame(next) == "event: redirect\ndata: " \o next \o "\n\n"

\* response.write(bytes): the frame goes out after those already written
WriteFrame_Front(fs, f) == <<f>> \o fs
WriteFrame(fs, f) == Append(fs, f)

\* existing_results.push(value)
PushResult_Front(results, value) == <<value>> \o results
PushResult(results, value) == Append(results, value)

\* if let Some(tok) = chunk.get("token").and_then(Value::as_str)
\*   { token_buf.push(tok.to_string()) }
BufferToken(buf, chunk) ==
  IF AsStr(Get(chunk, "token")) # Absent
  THEN Append(buf, Get(chunk, "token").v) ELSE buf

\* token_buf.join("")
TokenJoin_Spaced(buf) ==
  IF buf = <<>> THEN ""
  ELSE Head(buf) \o JoinStrings([i \in 1..(Len(buf) - 1) |-> " " \o buf[i + 1]])
TokenJoin(buf) == JoinStrings(buf)

\* ------------------------------------------------------ persistence tasks
SetNodeState(node_id, value) ==
  [op |-> "set_workflow_node_state", trigger_output |-> trigger_output,
   node_id |-> node_id, value |-> Obj([data |-> value])]
StoreExecution(results) ==
  [op |-> "store_execution_data_v2", results |-> results,
   workflow_id |-> workflow_id, user_id |-> user_id]

\* if let Some(node_id) = node_or_group.id() { wait_until(set_...) }
NodeStateTasks(value) ==
  IF node_or_group.id # Absent
  THEN <<SetNodeState(node_or_group.id.v, value)>> ELSE <<>>
\* else-branch of `step_index + 1 < graph.len()`
StoreTasks_Always(results) == <<StoreExecution(results)>>
StoreTasks(results) ==
  IF MoreSteps THEN <<>> ELSE <<StoreExecution(results)>>

\* wait_until(task) for each task of ts: queued with the runtime, not awaited
WaitUntil_Awaited(ts) ==
  /\ scheduled' = scheduled \o ts
  /\ pending' = pending
  /\ durable' = durable \cup ((Len(scheduled) + 1)..(Len(scheduled) + Len(ts)))
WaitUntil(ts) ==
  /\ scheduled' = scheduled \o ts
  /\ pending' = pending \cup ((Len(scheduled) + 1)..(Len(scheduled) + Len(ts)))
  /\ UNCHANGED durable

Unified(content, ms1, ms2) ==
  Obj([id |-> Str("cmpl-" \o FormatRadix(ms1, 16)),
       object |-> Str("chat.completion"),
       created |-> Num(ms2 \div 1000),
       model |-> Str("stream-reconstructed"),
       choices |-> Arr(<<Obj([index |-> Num(0),
                              message |-> Obj([role |-> Str("assistant"),
                                               content |-> Str(content)]),
                              finish_reason |-> Str("stop")])>>)])

\* -------------------------------------------------------------- Init
Init ==
  /\ req \in Requests
  /\ startStep = ParseStepIndex(req.path)
  /\ hops = 0
  /\ runStores = 0
  /\ pc = "start"
  /\ loaded = NotLoaded
  /\ existing_results = <<>>
  /\ result = NoResult
  /\ token_buf = <<>>
  /\ produced = <<>>
  /\ frames = <<>>
  /\ response = NoResponse
  /\ calls = NoCalls
  /\ scheduled = <<>>
  /\ pending = {}
  /\ durable = {}

\* ------------------------------------------------- handler, lines 17-26
\* CORS preflight
Preflight ==
  /\ pc = "start"
  /\ req.method = "OPTIONS"
  /\ response' = PreflightResponse
  /\ pc' = "done"
  /\ UNCHANGED <<req, startStep, hops, runStores, loaded, existing_results, result,
                 token_buf, produced, frames, calls, scheduled,
                 pending, durable>>

\* ------------------------------------------------- handler, lines 28-44
\* build the CORS builder, parse the step index, call req.json() and
\* suspend on it
ReadBody ==
  /\ pc = "start"
  /\ req.method # "OPTIONS"
  /\ pc' = "body"
  /\ calls' = [calls EXCEPT !.json = @ + 1]
  /\ UNCHANGED <<req, startStep, hops, runStores, loaded, existing_results,
                 result, token_buf, produced, frames, response, scheduled,
                 pending, durable>>

\* ------------------------------------------------- handler, lines 44-70
\* req.json() answers: a body that is not JSON or has no nodes array
\* returns the error; otherwise the fields are read, get_workflow_state is
\* called and the handler suspends on it
ParseBody ==
  /\ pc = "body"
  /\ IF req.body = InvalidBody
     THEN /\ response' = ErrResponse("invalid json body")
          /\ pc' = "done"
          /\ calls' = calls
     ELSE IF nodes = Absent
     THEN /\ response' = ErrResponse("nodes array is missing")
          /\ pc' = "done"
          /\ calls' = calls
     ELSE /\ response' = response
          /\ pc' = "load"
          /\ calls' = [calls EXCEPT !.get_workflow_state = @ + 1]
  /\ UNCHANGED <<req, startStep, hops, runStores, loaded, existing_results,
                 result, token_buf, produced, frames, scheduled, pending,
                 durable>>

\* ------------------------------------------------- handler, lines 69-84
\* get_workflow_state answers (an error becomes the empty sequence); the
\* graph is built and indexed; the executor for the entry is called
LoadState(ans) ==
  /\ pc = "load"
  /\ loaded' = ans
  /\ existing_results' = IF ans.kind = "ok" THEN ans.v ELSE <<>>
  /\ IF step_index >= Len(graph)
     THEN /\ response' = PanicResponse
          /\ pc' = "done"
          /\ calls' = [calls EXCEPT !.construct_nodes_graph = @ + 1]
     ELSE /\ response' = response
          /\ pc' = "exec"
          /\ calls' = IF node_or_group.group
                      THEN [calls EXCEPT !.construct_nodes_graph = @ + 1,
                                         !.execute_nodes_group = @ + 1]
                      ELSE [calls EXCEPT !.construct_nodes_graph = @ + 1,
                                         !.execute_single_node = @ + 1]
  /\ UNCHANGED <<req, startStep, hops, runStores, result, token_buf, produced, frames,
                 scheduled, pending, durable>>

\* ------------------------------------------------- handler, lines 78-84
\* the executor fails: `.await?` returns the error
ExecuteError ==
  /\ pc = "exec"
  /\ result' = [kind |-> "err"]
  /\ response' = ErrResponse("execution failed")
  /\ pc' = "done"
  /\ UNCHANGED <<req, startStep, hops, runStores, loaded, existing_results, token_buf,
                 produced, frames, calls, scheduled, pending,
                 durable>>

\* ------------------------------------------------ handler, lines 143-160
\* the executor answers a plain value: the non-streaming branch
ExecuteValue(v) ==
  /\ pc = "exec"
  /\ result' = [kind |-> "value", v |-> v]
  /\ existing_results' = PushResult(existing_results, v)
  /\ WaitUntil(NodeStateTasks(v) \o StoreTasks(existing_results'))
  /\ response' = IF MoreSteps THEN RedirectResponse(existing_results')
                 ELSE FinalResponse(existing_results')
  /\ pc' = "done"
  /\ UNCHANGED <<req, startStep, hops, runStores, loaded, token_buf, produced, frames,
                 calls>>

\* ------------------------------------------------- handler, lines 87-98
\* the executor answers a stream: the SSE response is opened and the loop
\* suspends on the first stream.next()
ExecuteStream ==
  /\ pc = "exec"
  /\ result' = [kind |-> "stream", state |-> "open"]
  /\ token_buf' = <<>>
  /\ pc' = "stream"
  /\ UNCHANGED <<req, startStep, hops, runStores, loaded, existing_results, produced,
                 frames, response, calls, scheduled, pending,
                 durable>>

\* ------------------------------------------------ handler, lines 99-108
\* stream.next() yields Some(Ok(chunk)): write its frame, buffer its token,
\* suspend on the next stream.next()
StreamChunk(chunk) ==
  /\ pc = "stream"
  /\ Len(produced) < MaxChunks
  /\ produced' = Append(produced, chunk)
  /\ frames' = WriteFrame(frames, DataFrame(chunk))
  /\ token_buf' = BufferToken(token_buf, chunk)
  /\ UNCHANGED <<req, startStep, hops, runStores, pc, loaded, existing_results, result,
                 response, calls, scheduled, pending, durable>>

\* ------------------------------------------------ handler, lines 110-140
\* after the loop: unified completion, redirect frame or final persistence,
\* response.end()
Finish(ms1, ms2) ==
  /\ LET unified == Unified(TokenJoin(token_buf), ms1, ms2)
         any == token_buf # <<>>
     IN /\ existing_results' = IF any THEN PushResult(existing_results, unified)
                               ELSE existing_results
        /\ WaitUntil((IF any THEN NodeStateTasks(unified) ELSE <<>>)
                     \o StoreTasks(existing_results'))
  /\ frames' = IF MoreSteps
               THEN WriteFrame(frames, RedirectFrame(NextStepPath(step_index)))
               ELSE frames
  /\ response' = OkResponse(200, SseHeaders, [t |-> "sse", frames |-> frames'])
  /\ pc' = "done"

\* stream.next() yields None: the loop ends
StreamEnd(ms1, ms2) ==
  /\ pc = "stream"
  /\ result' = [kind |-> "stream", state |-> "end"]
  /\ Finish(ms1, ms2)
  /\ UNCHANGED <<req, startStep, hops, runStores, loaded, token_buf, produced,
                 calls>>

\* stream.next() yields Some(Err(e)): `chunk?` returns the error
StreamError_Swallowed ==
  /\ pc = "stream"
  /\ result' = [kind |-> "stream", state |-> "err"]
  /\ Finish(1999, 1999)
  /\ UNCHANGED <<req, startStep, hops, runStores, loaded, token_buf, produced,
                 calls>>
StreamError ==
  /\ pc = "stream"
  /\ result' = [kind |-> "stream", state |-> "err"]
  /\ response' = ErrResponse("stream chunk failed")
  /\ pc' = "done"
  /\ UNCHANGED <<req, startStep, hops, runStores, loaded, existing_results,
                 token_buf, produced, frames, calls, scheduled, pending,
                 durable>>

\* ---------------------------------------------------- hosting runtime
\* a task handed to wait_until runs to completion
TaskComplete(i) ==
  /\ i \in pending
  /\ pending' = pending \ {i}
  /\ durable' = durable \cup {i}
  /\ UNCHANGED <<req, startStep, hops, runStores, pc, loaded, existing_results, result,
                 token_buf, produced, frames, response, calls, scheduled>>

\* a task handed to wait_until fails or is dropped; nobody is told
TaskFail(i) ==
  /\ i \in pending
  /\ pending' = pending \ {i}
  /\ UNCHANGED <<req, startStep, hops, runStores, pc, loaded, existing_results, result,
                 token_buf, produced, frames, response, calls, scheduled,
                 durable>>

\* ------------------------------------------------------------- client
\* where a returned response sends the client next: the Location of a 307,
\* or the data of a trailing `event: redirect` frame
ClientPaths ==
  [prefix : Prefixes,
   last : Segments \cup {<<DigitChars[n + 1]>> : n \in 0..MaxGraph}]
RedirectsTo(resp, p) ==
  /\ resp.kind = "ok"
  /\ \/ /\ resp.status = 307
        /\ <<"Location", PathString(p)>> \in resp.headers
     \/ /\ resp.body.t = "sse"
        /\ resp.body.frames # <<>>
        /\ resp.body.frames[Len(resp.body.frames)] = RedirectFrame(PathString(p))

IsStore(task) == task.op = "store_execution_data_v2"

\* the client re-sends the same method and body to the redirect target; a
\* new invocation, with its own wait_until queue, handles it
FollowRedirect(p) ==
  /\ pc = "done"
  /\ RedirectsTo(response, p)
  /\ req' = [req EXCEPT !.path = p]
  /\ hops' = hops + 1
  /\ pc' = "start"
  /\ loaded' = NotLoaded
  /\ existing_results' = <<>>
  /\ result' = NoResult
  /\ token_buf' = <<>>
  /\ produced' = <<>>
  /\ frames' = <<>>
  /\ response' = NoResponse
  /\ calls' = NoCalls
  /\ runStores' = runStores + Len(SelectSeq(scheduled, IsStore))
  /\ scheduled' = <<>>
  /\ pending' = {}
  /\ durable' = {}
  /\ UNCHANGED startStep

StateAnswers ==
  {[kind |-> "err"]} \cup {[kind |-> "ok", v |-> s] : s \in PriorSeqs}

Next ==
  \/ Preflight
  \/ ReadBody
  \/ ParseBody
  \/ \E ans \in StateAnswers : LoadState(ans)
  \/ ExecuteError
  \/ \E v \in Values : ExecuteValue(v)
  \/ ExecuteStream
  \/ \E chunk \in Chunks : StreamChunk(chunk)
  \/ StreamError
  \/ \E ms \in ClockReads : StreamEnd(ms[1], ms[2])
  \/ \E i \in 1..Len(scheduled) : TaskComplete(i)
  \/ \E i \in 1..Len(scheduled) : TaskFail(i)
  \/ \E p \in ClientPaths : FollowRedirect(p)

Spec == Init /\ [][Next]_vars

\* ====================================================== properties
\* what get_workflow_state handed over (an error counts as nothing)
PriorResults == IF loaded.kind = "ok" THEN loaded.v ELSE <<>>

\* the body is JSON and carries a `nodes` array
HasNodesArray ==
  /\ req.body.t = "obj"
  /\ "nodes" \in DOMAIN req.body.v
  /\ req.body.v["nodes"].t = "arr"
GraphLen == Len(req.body.v["nodes"].v)

\* a request that is not a preflight, has nodes, and whose step resolves
ValidRequest ==
  /\ req.method # "OPTIONS"
  /\ HasNodesArray
  /\ step_index < GraphLen
NonFinalStep == ValidRequest /\ step_index + 1 < GraphLen
FinalStep == ValidRequest /\ step_index + 1 = GraphLen

Returned == pc = "done"
StoresOf(tasks) == SelectSeq(tasks, LAMBDA t : t.op = "store_execution_data_v2")
NodeStatesOf(tasks) ==
  SelectSeq(tasks, LAMBDA t : t.op = "set_workflow_node_state")

\* the path of step n of the endpoint the request was addressed to
SameEndpointPath(n) == req.path.prefix \o "/" \o FormatUsize(n)

\* ---------------------------------------------------------------- C1
\* C1: a non-final step with a non-stream result answers 307 with Location
\* = the path of step s+1 of the endpoint the request was addressed to, and
\* a data array one longer than the prior results.
C1_RedirectToSameEndpoint ==
  (Returned /\ NonFinalStep /\ result.kind = "value") =>
    /\ response.kind = "ok"
    /\ response.status = 307
    /\ <<"Location", SameEndpointPath(step_index + 1)>> \in response.headers
    /\ response.body = JsonBody(existing_results)
    /\ Len(existing_results) = Len(PriorResults) + 1

\* ---------------------------------------------------------------- C2
\* C2: the final step with a non-stream result answers 200 and its data
\* array is the prior results, in loaded order, followed by this result.
C2_FinalResponse ==
  (Returned /\ FinalStep /\ result.kind = "value") =>
    /\ response.kind = "ok"
    /\ response.status = 200
    /\ response.body =
         [t |-> "text",
          text |-> ToJsonString(Obj([data |-> Arr(PriorResults \o <<result.v>>)]))]

C2_Witness ==
  /\ Returned /\ FinalStep /\ result.kind = "value"
  /\ response.kind = "ok"
  /\ PriorResults # <<>>
  /\ result.v # PriorResults[1]

\* ---------------------------------------------------------------- C3
\* C3: data frames go out one per chunk in production order, each before the
\* next chunk is awaited; a single redirect frame follows them exactly when
\* the stream has ended and more steps remain; when the stream has ended and
\* none remain there is no redirect frame and the full results are handed to
\* store_execution_data_v2.
DataFramesOf(chunks) ==
  [i \in 1..Len(chunks) |-> "data: " \o ToJsonString(chunks[i]) \o "\n\n"]
IsRedirectFrame(f) ==
  \E n \in 0..(MaxGraph + 1) :
    \E pre \in Prefixes :
      f = "event: redirect\ndata: " \o pre \o "/" \o FormatUsize(n) \o "\n\n"
StreamEnded == Returned /\ result.kind = "stream" /\ result.state = "end"

C3_FrameOrder ==
  (result.kind = "stream") =>
    /\ Len(frames) >= Len(produced)
    /\ SubSeq(frames, 1, Len(produced)) = DataFramesOf(produced)
    /\ (pc = "stream" \/ result.state = "err" \/ ~ NonFinalStep)
         => Len(frames) = Len(produced)
    /\ (StreamEnded /\ NonFinalStep)
         => /\ Len(frames) = Len(produced) + 1
            /\ IsRedirectFrame(frames[Len(frames)])
            /\ StoresOf(scheduled) = <<>>
    /\ (StreamEnded /\ FinalStep)
         => /\ Len(StoresOf(scheduled)) = 1
            /\ StoresOf(scheduled)[1].results = existing_results
    /\ StreamEnded => response.body = [t |-> "sse", frames |-> frames]

C3_Witness ==
  /\ StreamEnded /\ NonFinalStep
  /\ Len(produced) = 2
  /\ produced[1] # produced[2]
  /\ Len(frames) = 3

\* ---------------------------------------------------------------- C4
\* C4: when the stream has ended, the results grew by exactly one completion
\* whose message.content is the string tokens in production order if any
\* chunk had a string token; otherwise nothing was appended and no node
\* state was scheduled.
RECURSIVE ExpectedContent(_)
ExpectedContent(chunks) ==
  IF chunks = <<>> THEN ""
  ELSE LET c == Head(chunks).v
       IN (IF "token" \in DOMAIN c /\ c["token"].t = "str"
           THEN c["token"].v ELSE "")
          \o ExpectedContent(Tail(chunks))
HasStringToken(chunks) ==
  \E i \in 1..Len(chunks) :
    "token" \in DOMAIN chunks[i].v /\ chunks[i].v["token"].t = "str"

C4_UnifiedCompletion ==
  StreamEnded =>
    IF HasStringToken(produced)
    THEN /\ Len(existing_results) = Len(PriorResults) + 1
         /\ SubSeq(existing_results, 1, Len(PriorResults)) = PriorResults
         /\ LET u == existing_results[Len(existing_results)]
            IN /\ u.v["choices"].v[1].v["message"].v["content"]
                    = Str(ExpectedContent(produced))
               /\ Len(u.v["choices"].v) = 1
    ELSE /\ existing_results = PriorResults
         /\ NodeStatesOf(scheduled) = <<>>

C4_Witness ==
  /\ StreamEnded
  /\ produced = <<Obj([token |-> Str("Hel")]), Obj([token |-> Str("lo")])>>
  /\ existing_results[Len(existing_results)]
       .v["choices"].v[1].v["message"].v["content"] = Str("Hello")

\* ---------------------------------------------------------------- C5
\* C5: whatever handler returns for a non-OPTIONS request, success or error,
\* carries the three CORS headers.
HeadersOf(resp) == IF resp.kind = "ok" THEN resp.headers ELSE {}
C5_CorsOnEveryResponse ==
  (Returned /\ req.method # "OPTIONS" /\ response.kind \in {"ok", "err"}) =>
    /\ <<"Access-Control-Allow-Origin", "*">> \in HeadersOf(response)
    /\ <<"Access-Control-Allow-Methods", "POST, OPTIONS">> \in HeadersOf(response)
    /\ <<"Access-Control-Allow-Headers", "Content-Type">> \in HeadersOf(response)

\* ---------------------------------------------------------------- C6
\* C6: a body without a `nodes` array fails the request with no executor
\* call, no state load, no graph construction and nothing scheduled.
C6_MissingNodesFailsEarly ==
  (req.method # "OPTIONS" /\ ~ HasNodesArray) =>
    /\ pc \in {"start", "body", "done"}
    /\ calls.execute_single_node = 0
    /\ calls.execute_nodes_group = 0
    /\ calls.get_workflow_state = 0
    /\ calls.construct_nodes_graph = 0
    /\ scheduled = <<>>
    /\ Returned => response.kind = "err"
    /\ (Returned /\ req.body.t = "obj")
         => response = [kind |-> "err", error |-> "nodes array is missing"]

C6_Witness ==
  /\ Returned
  /\ req.method = "POST"
  /\ req.body = Obj([nodes |-> Str("n")])
  /\ response.kind = "err"

\* ---------------------------------------------------------------- C7
\* C7: an executor error, or an error chunk part-way through a stream, makes
\* handler return the error with nothing appended and nothing scheduled.
ExecutionFailed ==
  \/ result.kind = "err"
  \/ result.kind = "stream" /\ result.state = "err"

C7_ErrorPropagates ==
  ExecutionFailed =>
    /\ Returned
    /\ response.kind = "err"
    /\ existing_results = PriorResults
    /\ scheduled = <<>>

C7_Witness ==
  /\ Returned
  /\ result.kind = "stream" /\ result.state = "err"
  /\ Len(frames) = 2
  /\ token_buf # <<>>
  /\ response.kind = "err"

\* ---------------------------------------------------------------- C8
\* C8: OPTIONS is answered 204, empty body, three CORS headers, without
\* reading the body, loading state, building the graph, executing or
\* scheduling, whatever the path and body.
C8_Preflight ==
  (req.method = "OPTIONS") =>
    /\ pc \in {"start", "done"}
    /\ calls.json = 0
    /\ calls.get_workflow_state = 0
    /\ calls.construct_nodes_graph = 0
    /\ calls.execute_single_node = 0
    /\ calls.execute_nodes_group = 0
    /\ loaded.kind = "none"
    /\ scheduled = <<>>
    /\ Returned =>
         /\ response.kind = "ok"
         /\ response.status = 204
         /\ response.body = [t |-> "empty"]
         /\ response.headers =
              {<<"Access-Control-Allow-Origin", "*">>,
               <<"Access-Control-Allow-Methods", "POST, OPTIONS">>,
               <<"Access-Control-Allow-Headers", "Content-Type">>}

C8_Witness ==
  /\ Returned
  /\ req.method = "OPTIONS"
  /\ req.body = InvalidBody
  /\ req.path.last = <<"a">>
  /\ response.kind = "ok"

\* ---------------------------------------------------------------- C9
\* C9: the step in which handler hands tasks to wait_until returns the
\* response in that same step with every such task still pending and none
\* completed by it.
C9_FireAndForget ==
  [][(Len(scheduled') > Len(scheduled)) =>
       /\ pc' = "done"
       /\ response'.kind = "ok"
       /\ durable' = durable
       /\ \A i \in (Len(scheduled) + 1)..Len(scheduled') : i \in pending']_vars

\* the caller holds the response while its persistence is still pending
C9_Witness ==
  /\ Returned
  /\ response.kind = "ok"
  /\ Len(scheduled) = 2
  /\ pending = {2}
  /\ durable = {}

\* --------------------------------------------------------------- C10
\* C10: store_execution_data_v2 is scheduled once, with the accumulated
\* results after the append, by a successful final step (either branch) and
\* by no other request; over a run of followed redirects the count is one,
\* reached at the end.
FinalSuccess == Returned /\ FinalStep /\ response.kind = "ok"

C10_StoreOnceAtEnd ==
  /\ runStores + Len(StoresOf(scheduled)) = IF FinalSuccess THEN 1 ELSE 0
  /\ FinalSuccess =>
       /\ scheduled[Len(scheduled)].op = "store_execution_data_v2"
       /\ scheduled[Len(scheduled)].results = existing_results
       /\ Len(existing_results) >= Len(PriorResults)
       /\ result.kind = "value" =>
            existing_results = PriorResults \o <<result.v>>

C10_Witness ==
  /\ FinalSuccess
  /\ startStep = 0
  /\ hops = 1
  /\ result.kind = "stream"
  /\ token_buf # <<>>
  /\ runStores = 0
  /\ Len(StoresOf(scheduled)) = 1

====
